---- MODULE Spec2Model ----
(***************************************************************************)
(* DevicesStateMonitor (applets/devicenotifier/devicestatemonitor_p.cpp):  *)
(* the per-device status cache of the device notifier, its slots, and the  *)
(* Solid device objects whose signals drive it.                            *)
(* AutostartModel (kcms/autostart/autostartmodel.cpp): the list of        *)
(* autostart entries of the autostart settings module, and the KIO jobs    *)
(* that delete their files.                                                *)
(***************************************************************************)
EXTENDS Naturals, Sequences, FiniteSets

\* ------------------------------------------------------------------ bounds

\* Largest number of live connections from one Solid interface object to the
\* monitor; addMonitoringDevice is not taken when it would connect beyond it.
MaxConn == 2

\* Largest value of the UTC clock read by QDateTime::currentDateTimeUtc().
MaxClock == 1

\* Largest number of monitors instance() constructs in one run.
MaxObjects == 2

\* Largest number of shared_ptr handles held on one monitor.
MaxHandles == 2

\* Largest number of operations of one device that are requested and not done.
MaxFlight == 2

\* Largest number of rows of the autostart list.
MaxEntries == 2

\* Largest number of delete jobs started and not finished.
MaxJobs == 2

\* ------------------------------------------------------------ value domains

\* Device identifiers handed to the monitor.
UDI == {"udi-1", "udi-2"}

\* DevicesStateMonitor::State
States ==
    {"NotPresent", "Idle", "Mounting", "Unmounting", "Checking", "Repairing",
     "MountDone", "UnmountDone", "CheckDone", "RepairDone"}

\* Solid::ErrorType values delivered by the *Done signals.
ErrorTypes == {"NoError", "OperationFailed"}

\* QVariant payloads delivered by the *Done signals: a bool.
Variants == {"true", "false"}

\* QVariant(), the payload a new record holds.
NullVariant == "null"

\* QVariant::toBool(): an invalid variant and a false bool convert to false.
toBool(v) == v = "true"

\* What Solid reports about a device while it is valid: the interfaces it has
\* (is<T>()/as<T>()), the ancestors getAncestorAs<T>() finds, and the answers
\* of those interfaces that never change during the device's life.
Caps(disc, odrive, volume, access, check, repair, sdrive, ownRem, anc, ancRem, ancHot, cam, pmp) ==
    [opticalDisc |-> disc, opticalDrive |-> odrive, storageVolume |-> volume,
     storageAccess |-> access, canCheck |-> check, canRepair |-> repair,
     storageDrive |-> sdrive, removable |-> ownRem,
     ancestorDrive |-> anc, ancestorRemovable |-> ancRem, ancestorHotpluggable |-> ancHot,
     camera |-> cam, mediaPlayer |-> pmp]

\* The kinds of device the monitor is run against.
Profiles ==
    { \* partition of a hotpluggable disk, checkable and repairable
      Caps(FALSE, FALSE, TRUE, TRUE, TRUE, TRUE, FALSE, FALSE, TRUE, FALSE, TRUE, FALSE, FALSE),
      \* partition of an internal disk, checkable but not repairable
      Caps(FALSE, FALSE, TRUE, TRUE, TRUE, FALSE, FALSE, FALSE, TRUE, FALSE, FALSE, FALSE, FALSE),
      \* data disc in an optical drive: optical disc and mountable volume
      Caps(TRUE, TRUE, TRUE, TRUE, FALSE, FALSE, FALSE, FALSE, TRUE, TRUE, FALSE, FALSE, FALSE),
      \* audio disc: optical disc, a volume without storage access
      Caps(TRUE, TRUE, TRUE, FALSE, FALSE, FALSE, FALSE, FALSE, TRUE, TRUE, FALSE, FALSE, FALSE),
      \* network share: storage access, but no storage volume
      Caps(FALSE, FALSE, FALSE, TRUE, FALSE, FALSE, FALSE, FALSE, FALSE, FALSE, FALSE, FALSE, FALSE),
      \* removable drive below a fixed controller drive
      Caps(FALSE, FALSE, FALSE, FALSE, FALSE, FALSE, TRUE, TRUE, TRUE, FALSE, FALSE, FALSE, FALSE),
      \* camera
      Caps(FALSE, FALSE, FALSE, FALSE, FALSE, FALSE, FALSE, FALSE, FALSE, FALSE, FALSE, TRUE, FALSE),
      \* portable media player
      Caps(FALSE, FALSE, FALSE, FALSE, FALSE, FALSE, FALSE, FALSE, FALSE, FALSE, FALSE, FALSE, TRUE) }

\* ------------------------------------------------------------------- state

VARIABLES
    m_devicesStates,  \* QHash udi -> DeviceInfo: a function whose domain is the tracked udis
    accessConn,       \* udi -> connections from the device's StorageAccess to the monitor
    driveConn,        \* udi -> connections from the device's OpticalDrive to the monitor
    caps,             \* udi -> what Solid reports about the device while it is valid
    now,              \* the UTC clock
    notified,         \* the stateChanged(udi) emissions of the last step, in order
    lastCall,         \* the slot or method the last step ran, its udi, and what Solid answered
    crashed,          \* the process has dereferenced a null pointer
    objects,          \* the monitors constructed so far: the use count of each (0: destroyed)
    s_clip,           \* the static weak_ptr of instance(): an index of objects, 0 before the first call
    inFlight,         \* udi -> operations Solid has announced and not yet reported done,
                      \* for the devices whose operations are followed
    m_entries,        \* AutostartModel: the rows of the list, QList<AutostartEntry>
    files,            \* the files of the autostart and shutdown directories
    deleteJobs,       \* the KIO::DeleteJobs started and not finished: captured row and entry
    finished,         \* the job whose finished signal the last step handled, and its outcome
    sourceValue       \* AutostartEntrySource -> the integer value of the enumerator

\* The state of the autostart settings module, a process of its own.
autostart == <<m_entries, files, deleteJobs, finished, sourceValue>>

\* The state of the device notifier.
monitor ==
    <<m_devicesStates, accessConn, driveConn, caps, now, notified, lastCall, crashed,
      objects, s_clip, inFlight>>

vars == <<monitor, autostart>>

\* A monitor exists: the methods and slots run on it.
Alive == \E i \in DOMAIN objects : objects[i] > 0


\* What a null-pointer dereference may do: end the process, or go on with
\* whatever the read produced.
UBOutcomes == {"crash", "true", "false"}

\* What Solid answers, at the moment of a call, about the part of a device
\* that changes during its life: whether Solid::Device(udi) is valid, and
\* what StorageAccess::isAccessible() returns.
Answer(isValid, isAccessible) == [valid |-> isValid, accessible |-> isAccessible]

\* The answers Solid can give for a device: between two calls of the monitor
\* the device may be detached or attached, mounted or unmounted. Only a valid
\* device with a StorageAccess can be accessible.
Answers(c) ==
    {Answer(FALSE, FALSE), Answer(TRUE, FALSE)}
        \cup (IF c.storageAccess THEN {Answer(TRUE, TRUE)} ELSE {})

\* The answer recorded for a call that does not ask Solid.
NotAsked == Answer(FALSE, FALSE)

\* Solid::Device device(udi), as the monitor sees it during one call.
Device(c, answer) ==
    [valid |-> answer.valid, caps |-> c, accessible |-> answer.accessible]

\* The value of lastCall: the method or slot, its udi, Solid's answer, and the
\* state the call found the device's record in ("NotPresent": no record).
Ran(slot, udi, answer, found) ==
    [slot |-> slot, udi |-> udi, answer |-> answer, found |-> found]

\* The value lastCall holds before any call.
NoCall == Ran("none", "none", NotAsked, "NotPresent")

\* device.is<T>(): an invalid device has no interface.
is(device, iface) == device.valid /\ device.caps[iface]

\* device.as<Solid::StorageAccess>() != nullptr
hasAccess(device) == is(device, "storageAccess")

\* ----------------------------------------------------------------- instance

\* s_clip.expired(): the weak_ptr was never assigned, or its monitor is gone.
expired(objs, clip) == clip = 0 \/ objs[clip] = 0

\* Mutant of instance: the new monitor is not stored in s_clip.
instance_ForgetsClip(objs, clip) ==
    IF expired(objs, clip)
    THEN [objects |-> Append(objs, 1), s_clip |-> clip, constructed |-> TRUE]
    ELSE [objects |-> [objs EXCEPT ![clip] = @ + 1], s_clip |-> clip, constructed |-> FALSE]

\* instance(): the use counts and s_clip after the call, and whether the call
\* has constructed a monitor; the handle returned is on the monitor of s_clip.
instance(objs, clip) ==
    IF expired(objs, clip)
    THEN [objects |-> Append(objs, 1), s_clip |-> Len(objs) + 1, constructed |-> TRUE]
    ELSE [objects |-> [objs EXCEPT ![clip] = @ + 1], s_clip |-> clip, constructed |-> FALSE]

\* ------------------------------------------------------------ registration

\* Mutant of NewDeviceInfo: the time stamp is not taken from the clock.
NewDeviceInfo_NoClock(time) ==
    [isBusy |-> FALSE, isRemovable |-> FALSE, isMounted |-> FALSE,
     isChecked |-> FALSE, needRepair |-> FALSE,
     operationResult |-> "NoError", operationInfo |-> NullVariant,
     state |-> "Idle", deviceTimeStamp |-> 0]

\* The record addMonitoringDevice builds before it looks at the device.
NewDeviceInfo(time) ==
    [isBusy |-> FALSE, isRemovable |-> FALSE, isMounted |-> FALSE,
     isChecked |-> FALSE, needRepair |-> FALSE,
     operationResult |-> "NoError", operationInfo |-> NullVariant,
     state |-> "Idle", deviceTimeStamp |-> time]

\* Mutant of InitialMounted: the is<Solid::StorageVolume>() test is dropped.
InitialMounted_AnyAccess(device) ==
    IF hasAccess(device) THEN device.accessible ELSE FALSE

\* it->isMounted after the StorageVolume block of addMonitoringDevice.
InitialMounted(device) ==
    IF is(device, "storageVolume") /\ hasAccess(device) THEN device.accessible ELSE FALSE

\* it->isRemovable after the StorageDrive, ancestor drive, Camera and
\* PortableMediaPlayer blocks of addMonitoringDevice, each overwriting the last.
InitialRemovable(device) ==
    LET own == IF is(device, "storageDrive") THEN device.caps.removable ELSE FALSE
        anc == IF is(device, "ancestorDrive")
               THEN device.caps.ancestorRemovable \/ device.caps.ancestorHotpluggable
               ELSE own
        cam == IF is(device, "camera") THEN TRUE ELSE anc
    IN  IF is(device, "mediaPlayer") THEN TRUE ELSE cam

\* The connections addMonitoringDevice makes to the device's StorageAccess.
ConnectsAccess(device) == is(device, "storageVolume") /\ hasAccess(device)

\* The connections addMonitoringDevice makes to the disc's OpticalDrive.
ConnectsDrive(device) == is(device, "opticalDisc") /\ is(device, "opticalDrive")

\* Mutant of addMonitoringDevice: the constFind() test is dropped.
addMonitoringDevice_NoFind(ds, device, time, udi) ==
    LET info == [NewDeviceInfo(time) EXCEPT
                    !.isMounted = InitialMounted(device),
                    !.isRemovable = InitialRemovable(device)]
    IN  [ds |-> [u \in DOMAIN ds \cup {udi} |-> IF u = udi THEN info ELSE ds[u]],
         emitted |-> <<udi>>]

\* Mutant of addMonitoringDevice: a repeated registration probes the device
\* again and refreshes isRemovable.
addMonitoringDevice_Reprobes(ds, device, time, udi) ==
    IF udi \in DOMAIN ds
    THEN [ds |-> [ds EXCEPT ![udi].isRemovable = InitialRemovable(device)], emitted |-> <<>>]
    ELSE addMonitoringDevice_NoFind(ds, device, time, udi)

\* addMonitoringDevice(udi) on the record map: the map and the emissions.
addMonitoringDevice(ds, device, time, udi) ==
    IF udi \in DOMAIN ds
    THEN [ds |-> ds, emitted |-> <<>>]
    ELSE LET info == [NewDeviceInfo(time) EXCEPT
                         !.isMounted = InitialMounted(device),
                         !.isRemovable = InitialRemovable(device)]
         IN  [ds |-> [u \in DOMAIN ds \cup {udi} |-> IF u = udi THEN info ELSE ds[u]],
              emitted |-> <<udi>>]

\* Mutant of removeMonitoringDevice: the erase() is dropped.
removeMonitoringDevice_KeepsRecord(ds, udi) ==
    IF udi \in DOMAIN ds
    THEN [ds |-> ds, emitted |-> <<udi>>]
    ELSE [ds |-> ds, emitted |-> <<>>]

\* Mutant of removeMonitoringDevice: a busy record is left for its operation
\* to finish.
removeMonitoringDevice_UnlessBusy(ds, udi) ==
    IF udi \in DOMAIN ds /\ ~ds[udi].isBusy
    THEN [ds |-> [u \in DOMAIN ds \ {udi} |-> ds[u]], emitted |-> <<udi>>]
    ELSE [ds |-> ds, emitted |-> <<>>]

\* removeMonitoringDevice(udi) on the record map: the map and the emissions.
removeMonitoringDevice(ds, udi) ==
    IF udi \in DOMAIN ds
    THEN [ds |-> [u \in DOMAIN ds \ {udi} |-> ds[u]], emitted |-> <<udi>>]
    ELSE [ds |-> ds, emitted |-> <<>>]

\* removeMonitoringDevice disconnects the StorageAccess of a storage volume.
DisconnectsAccess(device) == is(device, "storageVolume") /\ hasAccess(device)

\* removeMonitoringDevice disconnects the OpticalDrive only of a device that
\* is no storage volume.
DisconnectsDrive(device) ==
    ~is(device, "storageVolume") /\ is(device, "opticalDisc") /\ is(device, "opticalDrive")

\* What holds of a tracked udi after each statement of removeMonitoringDevice,
\* in the order of the code: after m_devicesStates.erase(it), and after the
\* disconnect of the branch that the device's interfaces select. `access`
\* and `drive` are the udi's connection counts before the call.
removeMonitoringDeviceSteps(access, drive, device) ==
    <<[tracked |-> FALSE, accessConn |-> access, driveConn |-> drive],
      [tracked |-> FALSE,
       accessConn |-> IF DisconnectsAccess(device) THEN 0 ELSE access,
       driveConn |-> IF DisconnectsDrive(device) THEN 0 ELSE drive]>>

\* ------------------------------------------------------------------ queries

isBusy(udi) ==
    IF udi \in DOMAIN m_devicesStates THEN m_devicesStates[udi].isBusy ELSE FALSE

isRemovable(udi) ==
    IF udi \in DOMAIN m_devicesStates THEN m_devicesStates[udi].isRemovable ELSE FALSE

isMounted(udi) ==
    IF udi \in DOMAIN m_devicesStates THEN m_devicesStates[udi].isMounted ELSE FALSE

isChecked(udi) ==
    IF udi \in DOMAIN m_devicesStates THEN m_devicesStates[udi].isChecked ELSE FALSE

needRepair(udi) ==
    IF udi \in DOMAIN m_devicesStates THEN m_devicesStates[udi].needRepair ELSE FALSE

\* An invalid QDateTime is "null".
getDeviceTimeStamp(udi) ==
    IF udi \in DOMAIN m_devicesStates THEN <<m_devicesStates[udi].deviceTimeStamp>> ELSE <<>>

\* Mutant of getState: an unknown udi is reported Idle.
getState_UnknownIsIdle(udi) ==
    IF udi \in DOMAIN m_devicesStates THEN m_devicesStates[udi].state ELSE "Idle"

getState(udi) ==
    IF udi \in DOMAIN m_devicesStates THEN m_devicesStates[udi].state ELSE "NotPresent"

getOperationResult(udi) ==
    IF udi \in DOMAIN m_devicesStates THEN m_devicesStates[udi].operationResult ELSE "NoError"

getOperationInfo(udi) ==
    IF udi \in DOMAIN m_devicesStates THEN m_devicesStates[udi].operationInfo ELSE NullVariant

\* -------------------------------------------------------------------- slots

\* A slot's result: the record map, the stateChanged emissions, and whether
\* the slot ended the process instead of returning.
Returned(ds, emitted) == [ds |-> ds, emitted |-> emitted, crash |-> FALSE]

\* Mutant of setMountingState: stateChanged only when the record changes.
setMountingState_OnlyOnChange(ds, udi) ==
    IF udi \in DOMAIN ds /\ ds[udi].state # "Mounting"
    THEN Returned([ds EXCEPT ![udi].isBusy = TRUE, ![udi].state = "Mounting"], <<udi>>)
    ELSE Returned(ds, <<>>)

setMountingState(ds, udi) ==
    IF udi \in DOMAIN ds
    THEN Returned([ds EXCEPT ![udi].isBusy = TRUE, ![udi].state = "Mounting"], <<udi>>)
    ELSE Returned(ds, <<>>)

\* Mutant of setUnmountingState: the state of setMountingState is assigned.
setUnmountingState_Mounting(ds, udi) ==
    IF udi \in DOMAIN ds
    THEN Returned([ds EXCEPT ![udi].isBusy = TRUE, ![udi].state = "Mounting"], <<udi>>)
    ELSE Returned(ds, <<>>)

setUnmountingState(ds, udi) ==
    IF udi \in DOMAIN ds
    THEN Returned([ds EXCEPT ![udi].isBusy = TRUE, ![udi].state = "Unmounting"], <<udi>>)
    ELSE Returned(ds, <<>>)

\* Mutant of setCheckingState: a request is taken only when no operation runs.
setCheckingState_UnlessBusy(ds, udi) ==
    IF udi \in DOMAIN ds /\ ~ds[udi].isBusy
    THEN Returned([ds EXCEPT ![udi].isBusy = TRUE, ![udi].state = "Checking"], <<udi>>)
    ELSE Returned(ds, <<>>)

setCheckingState(ds, udi) ==
    IF udi \in DOMAIN ds
    THEN Returned([ds EXCEPT ![udi].isBusy = TRUE, ![udi].state = "Checking"], <<udi>>)
    ELSE Returned(ds, <<>>)

\* Mutant of setRepairingState: isBusy is not set.
setRepairingState_NotBusy(ds, udi) ==
    IF udi \in DOMAIN ds
    THEN Returned([ds EXCEPT ![udi].state = "Repairing"], <<udi>>)
    ELSE Returned(ds, <<>>)

setRepairingState(ds, udi) ==
    IF udi \in DOMAIN ds
    THEN Returned([ds EXCEPT ![udi].isBusy = TRUE, ![udi].state = "Repairing"], <<udi>>)
    ELSE Returned(ds, <<>>)

\* Mutant of setAccessibilityState: the Q_EMIT is dropped.
setAccessibilityState_Silent(ds, isAccessible, udi) ==
    IF udi \in DOMAIN ds /\ ds[udi].isMounted # isAccessible
    THEN Returned([ds EXCEPT ![udi].isMounted = isAccessible], <<>>)
    ELSE Returned(ds, <<>>)

\* Mutant of setAccessibilityState: the comparison with isMounted is dropped.
setAccessibilityState_Unfiltered(ds, isAccessible, udi) ==
    IF udi \in DOMAIN ds
    THEN Returned([ds EXCEPT ![udi].isMounted = isAccessible], <<udi>>)
    ELSE Returned(ds, <<>>)

setAccessibilityState(ds, isAccessible, udi) ==
    IF udi \in DOMAIN ds /\ ds[udi].isMounted # isAccessible
    THEN Returned([ds EXCEPT ![udi].isMounted = isAccessible], <<udi>>)
    ELSE Returned(ds, <<>>)

\* The body of setIdleState for a tracked udi of a valid device. `ub` is what
\* the build does where the slot calls a member of the null pointer that
\* device.as<Solid::StorageAccess>() returns for a device without that
\* interface: the process ends with the record as the slot has written it so
\* far, or the call yields some boolean.
finishOperation(ds, device, ub, operationResult, operationInfo, udi) ==
    LET stored == [ds[udi] EXCEPT !.isBusy = FALSE,
                                  !.operationResult = operationResult,
                                  !.operationInfo = operationInfo]
        nullAccess == ~hasAccess(device)
        canRepair == IF nullAccess THEN ub = "true" ELSE device.caps.canRepair
        isAccessible == IF nullAccess THEN ub = "true" ELSE device.accessible
        crash(info) == [ds |-> [ds EXCEPT ![udi] = info], emitted |-> <<>>, crash |-> TRUE]
        done(info) == Returned([ds EXCEPT ![udi] = info], <<udi>>)
    IN
      IF stored.state = "Checking" THEN
        LET checked == [stored EXCEPT !.isChecked = TRUE]
            readsCanRepair == operationResult = "NoError" /\ ~toBool(operationInfo)
        IN  IF readsCanRepair /\ nullAccess /\ ub = "crash" THEN crash(checked)
            ELSE done([checked EXCEPT
                         !.needRepair = IF operationResult = "NoError"
                                        THEN ~toBool(operationInfo) /\ canRepair
                                        ELSE FALSE,
                         !.state = "CheckDone"])
      ELSE IF stored.state = "Repairing" THEN
        done([stored EXCEPT !.needRepair = (operationResult # "NoError"),
                            !.state = "RepairDone"])
      ELSE IF stored.state = "Mounting" THEN
        IF nullAccess /\ ub = "crash" THEN crash(stored)
        ELSE done([stored EXCEPT !.isMounted = isAccessible, !.state = "MountDone"])
      ELSE IF stored.state = "Unmounting" THEN
        IF nullAccess /\ ub = "crash" THEN crash(stored)
        ELSE done([stored EXCEPT !.isMounted = isAccessible, !.state = "UnmountDone"])
      ELSE done([stored EXCEPT !.state = "Idle"])

\* Mutant of setIdleState: the isValid() test is dropped.
setIdleState_IgnoresValidity(ds, device, ub, operationResult, operationInfo, udi) ==
    IF udi \in DOMAIN ds
    THEN finishOperation(ds, device, ub, operationResult, operationInfo, udi)
    ELSE Returned(ds, <<>>)

\* Mutant of setIdleState: after a check, access->canRepair() is not asked.
setIdleState_RepairAnything(ds, device, ub, operationResult, operationInfo, udi) ==
    IF ~device.valid \/ udi \notin DOMAIN ds THEN Returned(ds, <<>>)
    ELSE LET r == finishOperation(ds, device, ub, operationResult, operationInfo, udi)
         IN  IF ds[udi].state = "Checking" /\ ~r.crash
             THEN [r EXCEPT !.ds[udi].needRepair =
                                (operationResult = "NoError" /\ ~toBool(operationInfo))]
             ELSE r

\* Mutant of setIdleState: after a repair, needRepair is only ever cleared.
setIdleState_RepairOnlyClears(ds, device, ub, operationResult, operationInfo, udi) ==
    IF ~device.valid \/ udi \notin DOMAIN ds THEN Returned(ds, <<>>)
    ELSE LET r == finishOperation(ds, device, ub, operationResult, operationInfo, udi)
         IN  IF ds[udi].state = "Repairing"
             THEN [r EXCEPT !.ds[udi].needRepair =
                                (ds[udi].needRepair /\ operationResult # "NoError")]
             ELSE r

\* Mutant of setIdleState: a done marker is left for the next request to replace.
setIdleState_KeepsMarker(ds, device, ub, operationResult, operationInfo, udi) ==
    IF ~device.valid \/ udi \notin DOMAIN ds THEN Returned(ds, <<>>)
    ELSE LET r == finishOperation(ds, device, ub, operationResult, operationInfo, udi)
         IN  IF ds[udi].state \in {"MountDone", "UnmountDone", "CheckDone", "RepairDone"}
             THEN [r EXCEPT !.ds[udi].state = ds[udi].state]
             ELSE r

\* Mutant of setIdleState: the Unmounting branch assigns the state of the
\* Mounting branch.
setIdleState_UnmountIsMountDone(ds, device, ub, operationResult, operationInfo, udi) ==
    IF ~device.valid \/ udi \notin DOMAIN ds THEN Returned(ds, <<>>)
    ELSE LET r == finishOperation(ds, device, ub, operationResult, operationInfo, udi)
         IN  IF ds[udi].state = "Unmounting" /\ ~r.crash
             THEN [r EXCEPT !.ds[udi].state = "MountDone"]
             ELSE r

\* Mutant of setIdleState: isBusy is cleared only when the record goes Idle.
setIdleState_BusyUntilIdle(ds, device, ub, operationResult, operationInfo, udi) ==
    IF ~device.valid \/ udi \notin DOMAIN ds THEN Returned(ds, <<>>)
    ELSE LET r == finishOperation(ds, device, ub, operationResult, operationInfo, udi)
         IN  IF r.ds[udi].state # "Idle"
             THEN [r EXCEPT !.ds[udi].isBusy = ds[udi].isBusy]
             ELSE r

\* Mutant of setIdleState: the result of the operation is not stored.
setIdleState_KeepsResult(ds, device, ub, operationResult, operationInfo, udi) ==
    IF ~device.valid \/ udi \notin DOMAIN ds THEN Returned(ds, <<>>)
    ELSE LET r == finishOperation(ds, device, ub, operationResult, operationInfo, udi)
         IN  [r EXCEPT !.ds[udi].operationResult = ds[udi].operationResult]

setIdleState(ds, device, ub, operationResult, operationInfo, udi) ==
    IF ~device.valid THEN Returned(ds, <<>>)
    ELSE IF udi \notin DOMAIN ds THEN Returned(ds, <<>>)
    ELSE finishOperation(ds, device, ub, operationResult, operationInfo, udi)

\* ------------------------------------------------------- signal delivery

\* One invocation of a slot by a signal: the slot and the signal's arguments.
Call(slot, operationResult, operationInfo, isAccessible, udi) ==
    [slot |-> slot, operationResult |-> operationResult,
     operationInfo |-> operationInfo, isAccessible |-> isAccessible, udi |-> udi]

Requested(slot, udi) == Call(slot, "NoError", NullVariant, FALSE, udi)

Done(operationResult, operationInfo, udi) ==
    Call("setIdleState", operationResult, operationInfo, FALSE, udi)

\* The value of lastCall after a slot: as Ran, with the signal's arguments.
RanSlot(call, answer, found) ==
    [slot |-> call.slot, udi |-> call.udi, answer |-> answer, found |-> found,
     operationResult |-> call.operationResult, operationInfo |-> call.operationInfo,
     isAccessible |-> call.isAccessible]

\* The slot of `call` run on the record map.
RunSlot(ds, device, ub, call) ==
    CASE call.slot = "setMountingState" -> setMountingState(ds, call.udi)
      [] call.slot = "setUnmountingState" -> setUnmountingState(ds, call.udi)
      [] call.slot = "setCheckingState" -> setCheckingState(ds, call.udi)
      [] call.slot = "setRepairingState" -> setRepairingState(ds, call.udi)
      [] call.slot = "setAccessibilityState" ->
            setAccessibilityState(ds, call.isAccessible, call.udi)
      [] call.slot = "setIdleState" ->
            setIdleState(ds, device, ub, call.operationResult, call.operationInfo, call.udi)

\* The connections of the signals connected only when canCheck()/canRepair().
CheckConn(udi) == IF caps[udi].canCheck THEN accessConn[udi] ELSE 0

\* Mutant of RepairConn: repairRequested and repairDone are connected for every
\* storage volume, whatever canRepair() says.
RepairConn_Unconditional(udi) == accessConn[udi]

RepairConn(udi) == IF caps[udi].canRepair THEN accessConn[udi] ELSE 0

\* The number of connections that deliver a signal of the device to `slot`:
\* addMonitoringDevice connects setupRequested to setMountingState,
\* teardownRequested and ejectRequested to setUnmountingState, checkRequested
\* to setCheckingState, repairRequested to setRepairingState,
\* accessibilityChanged to setAccessibilityState, and setupDone, teardownDone,
\* checkDone, repairDone and ejectDone to setIdleState.
Connections(slot, udi) ==
    CASE slot = "setMountingState" -> accessConn[udi]
      [] slot = "setUnmountingState" -> accessConn[udi] + driveConn[udi]
      [] slot = "setCheckingState" -> CheckConn(udi)
      [] slot = "setRepairingState" -> RepairConn(udi)
      [] slot = "setAccessibilityState" -> accessConn[udi]
      [] slot = "setIdleState" ->
            accessConn[udi] + accessConn[udi] + CheckConn(udi) + RepairConn(udi) + driveConn[udi]

\* The slots of the *Requested signals.
RequestSlots ==
    {"setMountingState", "setUnmountingState", "setCheckingState", "setRepairingState"}

\* The operations of a device that are in flight, by the slot of the request
\* that announced them: none.
NoFlight == [slot \in RequestSlots |-> 0]

\* The number of operations in `flight`.
RECURSIVE InFlight(_, _)
InFlight(flight, slots) ==
    IF slots = {} THEN 0
    ELSE LET slot == CHOOSE x \in slots : TRUE
         IN  flight[slot] + InFlight(flight, slots \ {slot})

\* The operations whose *Done signal `call` can be: for a device whose
\* operations are followed, setupDone reports a setup that is in flight,
\* checkDone a check, and so on; `completes` is the slot of the request.
Completing(call) ==
    IF call.udi \in DOMAIN inFlight /\ call.slot = "setIdleState"
    THEN {slot \in RequestSlots : inFlight[call.udi][slot] > 0}
    ELSE {"none"}

\* The operations in flight after the signal of `call`: a *Requested signal
\* announces one more, a *Done signal reports one done.
Flight(call, completes) ==
    IF call.udi \notin DOMAIN inFlight THEN inFlight
    ELSE IF call.slot \in RequestSlots THEN [inFlight EXCEPT ![call.udi][call.slot] = @ + 1]
    ELSE IF call.slot = "setIdleState" THEN [inFlight EXCEPT ![call.udi][completes] = @ - 1]
    ELSE inFlight

\* Solid can emit the signal of `call`: it runs one setup, one teardown or
\* eject, one check and one repair of a device at a time.
Emittable(call) ==
    (call.udi \in DOMAIN inFlight /\ call.slot \in RequestSlots)
        => /\ inFlight[call.udi][call.slot] = 0
           /\ InFlight(inFlight[call.udi], RequestSlots) < MaxFlight

\* The answers of Solid that `call` can meet: only setIdleState asks.
Asked(call) ==
    IF call.slot = "setIdleState" THEN Answers(caps[call.udi]) ELSE {NotAsked}

\* The builds' outcomes that differ for `call`: only setIdleState dereferences
\* the StorageAccess pointer, and the pointer is null only without the interface.
Outcomes(call, device) ==
    IF call.slot = "setIdleState" /\ ~hasAccess(device) THEN UBOutcomes ELSE {"crash"}

\* The monitor runs the slot of `call`.
Deliver(call) ==
    /\ ~crashed
    /\ Alive
    /\ Emittable(call)
    /\ \E completes \in Completing(call) : inFlight' = Flight(call, completes)
    /\ \E answer \in Asked(call) :
        \E ub \in Outcomes(call, Device(caps[call.udi], answer)) :
          LET r == RunSlot(m_devicesStates, Device(caps[call.udi], answer), ub, call)
          IN  /\ m_devicesStates' = r.ds
              /\ notified' = r.emitted
              /\ crashed' = r.crash
              /\ lastCall' = RanSlot(call, answer, getState(call.udi))
              /\ UNCHANGED <<accessConn, driveConn, caps, now, objects, s_clip, autostart>>

\* --------------------------------------------------------- AutostartModel

\* The sources of the entries that the module adds while it runs.
AutostartEntrySource == {"XdgAutoStart", "XdgScripts", "PlasmaShutdown"}

\* The values the enumerators can have: sortedEntries compares them with <,
\* and every order of the three is considered.
SourceValues ==
    {v \in [AutostartEntrySource -> 0 .. Cardinality(AutostartEntrySource) - 1] :
        \A a, b \in AutostartEntrySource : a # b => v[a] # v[b]}

\* The names of the services and scripts the user adds.
Names == {"alpha", "Beta"}

\* QCollator with Qt::CaseInsensitive: the rank of a name in the collation.
CollationKey(name) == CASE name = "alpha" -> 1 [] name = "Beta" -> 2

\* collator.compare(a, b) < 0
collatorLess(a, b) == CollationKey(a) < CollationKey(b)

\* The file `name` of a directory (copy 0) and the names makeSuggestedName
\* derives from it: name_1_, name_2_, ...
Path(dir, name, copy) == [dir |-> dir, name |-> name, copy |-> copy]

\* The path a new file of the name gets: the name itself unless that file
\* exists, and then the first suggested name that does not exist.
suggestName(dir, name, fs) ==
    LET free == {n \in 0 .. Cardinality(fs) : Path(dir, name, n) \notin fs}
    IN  Path(dir, name, CHOOSE n \in free : \A o \in free : n <= o)

AutostartEntry(name, source, fileName) ==
    [name |-> name, source |-> source, fileName |-> fileName]

NoEntry == AutostartEntry("none", "none", Path("none", "none", 0))

\* QList::insert(index, entry) and QList::remove(row), rows counted from 0.
insert(entries, index, entry) ==
    SubSeq(entries, 1, index) \o <<entry>> \o SubSeq(entries, index + 1, Len(entries))

remove(entries, row) ==
    SubSeq(entries, 1, row) \o SubSeq(entries, row + 2, Len(entries))

\* The comparison of sortedEntries.
Less(a, b) ==
    IF a.source # b.source
    THEN sourceValue[a.source] < sourceValue[b.source]
    ELSE collatorLess(a.name, b.name)

\* What std::ranges::sort can make of the list: the sort is not stable, so
\* entries that compare equal end in any order.
sortedEntries(entries) ==
    LET n == Len(entries)
        perms == {f \in [1 .. n -> 1 .. n] : \A i, j \in 1 .. n : i # j => f[i] # f[j]}
        sorted(f) == \A i, j \in 1 .. n : i < j => ~Less(entries[f[j]], entries[f[i]])
    IN  {[i \in 1 .. n |-> entries[f[i]]] : f \in {g \in perms : sorted(g)}}

\* The number of entries before the first one of the source.
Before(entries, source) ==
    LET hits == {i \in 1 .. Len(entries) : entries[i].source = source}
    IN  IF hits = {} THEN Len(entries)
        ELSE (CHOOSE i \in hits : \A j \in hits : i <= j) - 1

\* addApplication: the entry goes before the script items, then sort().
addApplication(entries, desktopPath, name) ==
    sortedEntries(insert(entries, Before(entries, "XdgScripts"),
                         AutostartEntry(name, "XdgAutoStart", desktopPath)))

\* insertScriptEntry: the entry goes to index, then sort().
insertScriptEntry(entries, index, name, path, kind) ==
    sortedEntries(insert(entries, index, AutostartEntry(name, kind, path)))

\* A delete job: the row and the entry its finished handler has captured.
DeleteJob(row, entry) == [row |-> row, entry |-> entry]

\* What the last step made of a job's finished signal.
Finished(job, outcome) == [row |-> job.row, entry |-> job.entry, outcome |-> outcome]

NoJob == Finished(DeleteJob(0, NoEntry), "none")

\* What m_entries.remove(row) may do with a row that is not in the list:
\* the process ends, or goes on with the list as it was or one entry shorter.
RemoveOutcomes == {"abort", "unchanged", "shrunk"}

\* The finished handler of removeEntry for a job without error.
removeFinished(entries, row, ub) ==
    IF row < Len(entries) THEN [entries |-> remove(entries, row), outcome |-> "removed"]
    ELSE IF ub = "shrunk" /\ entries # <<>>
    THEN [entries |-> SubSeq(entries, 1, Len(entries) - 1), outcome |-> ub]
    ELSE [entries |-> entries, outcome |-> IF ub = "shrunk" THEN "unchanged" ELSE ub]

\* The settings module runs.
Running == finished.outcome # "abort"

\* The user adds an application: its desktop file is copied to the autostart
\* directory under a name that is free.
AddApplication(name) ==
    LET desktopPath == suggestName("autostart", name, files)
    IN  /\ Running
        /\ Len(m_entries) < MaxEntries
        /\ files' = files \cup {desktopPath}
        /\ m_entries' \in addApplication(m_entries, desktopPath, name)
        /\ finished' = NoJob
        /\ UNCHANGED <<deleteJobs, sourceValue, monitor>>

\* The user adds a login script: addScript with XdgScripts writes its desktop
\* file and inserts the entry before the first logout script.
AddScript(name) ==
    LET path == suggestName("autostart", name, files)
    IN  /\ Running
        /\ Len(m_entries) < MaxEntries
        /\ files' = files \cup {path}
        /\ m_entries' \in insertScriptEntry(m_entries, Before(m_entries, "PlasmaShutdown"),
                                            name, path, "XdgScripts")
        /\ finished' = NoJob
        /\ UNCHANGED <<deleteJobs, sourceValue, monitor>>

\* The link job of addScript with PlasmaShutdown finishes without error: the
\* link exists under a name that was free, and the entry is inserted at the end.
LinkFinished(name) ==
    LET dest == suggestName("shutdown", name, files)
    IN  /\ Running
        /\ Len(m_entries) < MaxEntries
        /\ files' = files \cup {dest}
        /\ m_entries' \in insertScriptEntry(m_entries, Len(m_entries),
                                            name, dest, "PlasmaShutdown")
        /\ finished' = NoJob
        /\ UNCHANGED <<deleteJobs, sourceValue, monitor>>

\* The user removes a row of the list: removeEntry starts the job that
\* deletes the entry's file.
RemoveEntry(row) ==
    /\ Running
    /\ row < Len(m_entries)
    /\ Len(deleteJobs) < MaxJobs
    /\ deleteJobs' = Append(deleteJobs, DeleteJob(row, m_entries[row + 1]))
    /\ finished' = NoJob
    /\ UNCHANGED <<m_entries, files, sourceValue, monitor>>

\* A delete job finishes: with an error when its file does not exist or
\* cannot be deleted, and else with the file deleted; then its handler runs.
DeleteFinished(i) ==
    LET job == deleteJobs[i]
        exists == job.entry.fileName \in files
    IN  /\ Running
        /\ deleteJobs' = remove(deleteJobs, i - 1)
        /\ \E error \in (IF exists THEN BOOLEAN ELSE {TRUE}) :
             IF error
             THEN /\ finished' = Finished(job, "error")
                  /\ UNCHANGED <<m_entries, files>>
             ELSE \E ub \in RemoveOutcomes :
                    LET r == removeFinished(m_entries, job.row, ub)
                    IN  /\ files' = files \ {job.entry.fileName}
                        /\ m_entries' = r.entries
                        /\ finished' = Finished(job, r.outcome)
        /\ UNCHANGED <<sourceValue, monitor>>

\* The device notifier's process has no AutostartModel.
NoAutostartModel ==
    /\ m_entries = <<>>
    /\ files = {}
    /\ deleteJobs = <<>>
    /\ finished = NoJob
    /\ sourceValue = <<>>

\* The settings module after load() of empty directories; its process has
\* no DevicesStateMonitor.
InitAutostart ==
    /\ m_entries = <<>>
    /\ files = {}
    /\ deleteJobs = <<>>
    /\ finished = NoJob
    /\ sourceValue \in SourceValues
    /\ m_devicesStates = <<>>
    /\ accessConn = [u \in UDI |-> 0]
    /\ driveConn = [u \in UDI |-> 0]
    /\ caps = <<>>
    /\ now = 0
    /\ notified = <<>>
    /\ lastCall = NoCall
    /\ crashed = FALSE
    /\ objects = <<>>
    /\ s_clip = 0
    /\ inFlight = <<>>

NextAutostart ==
    \/ \E name \in Names : AddApplication(name)
    \/ \E name \in Names : AddScript(name)
    \/ \E name \in Names : LinkFinished(name)
    \/ \E row \in 0 .. MaxEntries - 1 : RemoveEntry(row)
    \/ \E i \in DOMAIN deleteJobs : DeleteFinished(i)

SpecAutostart == InitAutostart /\ [][NextAutostart]_vars

\* ------------------------------------------------------------------ actions

\* The second device is a camera, which has no lifecycle signals; the first
\* is of any kind.
Init ==
    /\ m_devicesStates = <<>>
    /\ accessConn = [u \in UDI |-> 0]
    /\ driveConn = [u \in UDI |-> 0]
    /\ caps \in [UDI -> Profiles]
    /\ caps["udi-2"].camera
    /\ now = 0
    /\ notified = <<>>
    /\ lastCall = NoCall
    /\ crashed = FALSE
    /\ objects = <<1>>
    /\ s_clip = 1
    /\ inFlight = <<>>
    /\ NoAutostartModel

AddMonitoringDevice(udi) ==
    \E answer \in Answers(caps[udi]) :
      LET device == Device(caps[udi], answer)
          r == addMonitoringDevice(m_devicesStates, device, now, udi)
          fresh == udi \notin DOMAIN m_devicesStates
      IN  /\ ~crashed
          /\ Alive
          /\ fresh /\ ConnectsAccess(device) => accessConn[udi] < MaxConn
          /\ fresh /\ ConnectsDrive(device) => driveConn[udi] < MaxConn
          /\ m_devicesStates' = r.ds
          /\ notified' = r.emitted
          /\ accessConn' = IF fresh /\ ConnectsAccess(device)
                           THEN [accessConn EXCEPT ![udi] = @ + 1] ELSE accessConn
          /\ driveConn' = IF fresh /\ ConnectsDrive(device)
                          THEN [driveConn EXCEPT ![udi] = @ + 1] ELSE driveConn
          /\ lastCall' = Ran("addMonitoringDevice", udi,
                              IF fresh THEN answer ELSE NotAsked, getState(udi))
          /\ UNCHANGED <<caps, now, crashed, objects, s_clip, inFlight, autostart>>

RemoveMonitoringDevice(udi) ==
    \E answer \in Answers(caps[udi]) :
      LET device == Device(caps[udi], answer)
          r == removeMonitoringDevice(m_devicesStates, udi)
          found == udi \in DOMAIN m_devicesStates
      IN  /\ ~crashed
          /\ Alive
          /\ m_devicesStates' = r.ds
          /\ notified' = r.emitted
          /\ accessConn' = IF found /\ DisconnectsAccess(device)
                           THEN [accessConn EXCEPT ![udi] = 0] ELSE accessConn
          /\ driveConn' = IF found /\ DisconnectsDrive(device)
                          THEN [driveConn EXCEPT ![udi] = 0] ELSE driveConn
          /\ lastCall' = Ran("removeMonitoringDevice", udi,
                              IF found THEN answer ELSE NotAsked, getState(udi))
          /\ UNCHANGED <<caps, now, crashed, objects, s_clip, inFlight, autostart>>

\* A signal connected to a slot is emitted and the monitor runs the slot. (Qt
\* runs the slot once per connection; the invocations for the further
\* connections are further steps of the same action.)

\* setupRequested
SetMountingState(udi) ==
    /\ Connections("setMountingState", udi) > 0
    /\ Deliver(Requested("setMountingState", udi))

\* teardownRequested, ejectRequested
SetUnmountingState(udi) ==
    /\ Connections("setUnmountingState", udi) > 0
    /\ Deliver(Requested("setUnmountingState", udi))

\* checkRequested
SetCheckingState(udi) ==
    /\ Connections("setCheckingState", udi) > 0
    /\ Deliver(Requested("setCheckingState", udi))

\* repairRequested
SetRepairingState(udi) ==
    /\ Connections("setRepairingState", udi) > 0
    /\ Deliver(Requested("setRepairingState", udi))

\* accessibilityChanged
SetAccessibilityState(isAccessible, udi) ==
    /\ Connections("setAccessibilityState", udi) > 0
    /\ Deliver(Call("setAccessibilityState", "NoError", NullVariant, isAccessible, udi))

\* setupDone, teardownDone, checkDone, repairDone, ejectDone
SetIdleState(operationResult, operationInfo, udi) ==
    /\ Connections("setIdleState", udi) > 0
    /\ Deliver(Done(operationResult, operationInfo, udi))

\* ------------------------------------------------------------- environment

\* Time passes.
Tick ==
    /\ ~crashed
    /\ now < MaxClock
    /\ now' = now + 1
    /\ notified' = <<>>
    /\ lastCall' = NoCall
    /\ UNCHANGED <<m_devicesStates, accessConn, driveConn, caps, crashed, objects, s_clip,
                   inFlight, autostart>>

\* A caller asks for the monitor. A monitor that instance() constructs starts
\* with an empty m_devicesStates and no connection.
Instance ==
    LET r == instance(objects, s_clip)
    IN  /\ ~crashed
        /\ IF r.constructed
           THEN /\ Len(objects) < MaxObjects
                /\ m_devicesStates' = <<>>
                /\ accessConn' = [u \in UDI |-> 0]
                /\ driveConn' = [u \in UDI |-> 0]
           ELSE /\ objects[s_clip] < MaxHandles
                /\ UNCHANGED <<m_devicesStates, accessConn, driveConn>>
        /\ objects' = r.objects
        /\ s_clip' = r.s_clip
        /\ notified' = <<>>
        /\ lastCall' = Ran("instance", "none", NotAsked, "NotPresent")
        /\ UNCHANGED <<caps, now, crashed, inFlight, autostart>>

\* A caller drops its shared_ptr to monitor i. The last handle destroys the
\* monitor, and with it its records and, as for every QObject, its connections.
Release(i) ==
    /\ ~crashed
    /\ objects[i] > 0
    /\ objects' = [objects EXCEPT ![i] = @ - 1]
    /\ IF objects[i] = 1
       THEN /\ m_devicesStates' = <<>>
            /\ accessConn' = [u \in UDI |-> 0]
            /\ driveConn' = [u \in UDI |-> 0]
       ELSE UNCHANGED <<m_devicesStates, accessConn, driveConn>>
    /\ notified' = <<>>
    /\ lastCall' = Ran("release", "none", NotAsked, "NotPresent")
    /\ UNCHANGED <<caps, now, crashed, s_clip, inFlight, autostart>>

Next ==
    \/ \E udi \in UDI : AddMonitoringDevice(udi)
    \/ \E udi \in UDI : RemoveMonitoringDevice(udi)
    \/ \E udi \in UDI : SetMountingState(udi)
    \/ \E udi \in UDI : SetUnmountingState(udi)
    \/ \E udi \in UDI : SetCheckingState(udi)
    \/ \E udi \in UDI : SetRepairingState(udi)
    \/ \E udi \in UDI, isAccessible \in BOOLEAN : SetAccessibilityState(isAccessible, udi)
    \/ \E udi \in UDI, operationResult \in ErrorTypes, operationInfo \in Variants :
          SetIdleState(operationResult, operationInfo, udi)

Spec == Init /\ [][Next]_vars

\* The monitor with the clock running while it follows one device, a
\* partition that can be checked.
InitClock ==
    /\ Init
    /\ caps["udi-1"].canCheck

NextClock ==
    \/ Tick
    \/ AddMonitoringDevice("udi-1")
    \/ RemoveMonitoringDevice("udi-1")
    \/ SetMountingState("udi-1")
    \/ SetUnmountingState("udi-1")
    \/ SetCheckingState("udi-1")
    \/ SetRepairingState("udi-1")
    \/ \E isAccessible \in BOOLEAN : SetAccessibilityState(isAccessible, "udi-1")
    \/ \E operationResult \in ErrorTypes, operationInfo \in Variants :
          SetIdleState(operationResult, operationInfo, "udi-1")

SpecClock == InitClock /\ [][NextClock]_vars

\* The process from its start: no monitor exists until a caller asks for it;
\* callers take and drop handles, and register and remove devices.
InitInstance ==
    /\ m_devicesStates = <<>>
    /\ accessConn = [u \in UDI |-> 0]
    /\ driveConn = [u \in UDI |-> 0]
    /\ caps \in [UDI -> Profiles]
    /\ caps["udi-2"].camera
    /\ now = 0
    /\ notified = <<>>
    /\ lastCall = NoCall
    /\ crashed = FALSE
    /\ objects = <<>>
    /\ s_clip = 0
    /\ inFlight = <<>>
    /\ NoAutostartModel

NextInstance ==
    \/ Instance
    \/ \E i \in DOMAIN objects : Release(i)
    \/ \E udi \in UDI : AddMonitoringDevice(udi)
    \/ \E udi \in UDI : RemoveMonitoringDevice(udi)

SpecInstance == InitInstance /\ [][NextInstance]_vars

\* The monitor following the operations of one device, a partition that can
\* be checked and repaired, which stays attached and registered: every *Done signal
\* reports an operation announced before, and finds the device valid.
InitFlight ==
    /\ m_devicesStates = <<>>
    /\ accessConn = [u \in UDI |-> 0]
    /\ driveConn = [u \in UDI |-> 0]
    /\ caps \in [UDI -> Profiles]
    /\ caps["udi-1"].canCheck /\ caps["udi-1"].canRepair
    /\ caps["udi-2"].camera
    /\ now = 0
    /\ notified = <<>>
    /\ lastCall = NoCall
    /\ crashed = FALSE
    /\ objects = <<1>>
    /\ s_clip = 1
    /\ inFlight = [udi \in {"udi-1"} |-> NoFlight]
    /\ NoAutostartModel

NextFlight ==
    \/ AddMonitoringDevice("udi-1") /\ lastCall'.answer.valid
    \/ SetMountingState("udi-1")
    \/ SetUnmountingState("udi-1")
    \/ SetCheckingState("udi-1")
    \/ SetRepairingState("udi-1")
    \/ \E operationResult \in ErrorTypes, operationInfo \in Variants :
          SetIdleState(operationResult, operationInfo, "udi-1") /\ lastCall'.answer.valid

SpecFlight == InitFlight /\ [][NextFlight]_vars

\* A *Done signal of an operation of the device is delivered.
DoneDelivered ==
    \E operationResult \in ErrorTypes, operationInfo \in Variants :
        SetIdleState(operationResult, operationInfo, "udi-1") /\ lastCall'.answer.valid

\* Every operation that has been requested is eventually reported done.
SpecFlightFair == SpecFlight /\ WF_vars(DoneDelivered)

\* ---------------------------------------------------------------- claims

BusyStates == {"Mounting", "Unmounting", "Checking", "Repairing"}

\* Every query of the monitor on one udi.
AllQueries(udi) ==
    <<isBusy(udi), isRemovable(udi), isMounted(udi), isChecked(udi), needRepair(udi),
      getState(udi), getOperationResult(udi), getOperationInfo(udi), getDeviceTimeStamp(udi)>>

\* What the queries return for a udi the monitor has never heard of.
Defaults == <<FALSE, FALSE, FALSE, FALSE, FALSE, "NotPresent", "NoError", NullVariant, <<>>>>

\* The step has changed (created, discarded or modified) the record of udi.
Changed(udi) ==
    \/ (udi \in DOMAIN m_devicesStates) # (udi \in DOMAIN m_devicesStates')
    \/ /\ udi \in DOMAIN m_devicesStates
       /\ udi \in DOMAIN m_devicesStates'
       /\ m_devicesStates'[udi] # m_devicesStates[udi]

\* The step is a call of `slot` for udi.
Calls(slot, udi) == lastCall'.slot = slot /\ lastCall'.udi = udi /\ vars' # vars

\* C1: while the monitor runs, after every call that has returned, each
\* tracked record has isBusy = TRUE exactly when its state is Mounting,
\* Unmounting, Checking or Repairing.
C1_BusyIffBusyState ==
    ~crashed =>
        \A udi \in DOMAIN m_devicesStates :
            m_devicesStates[udi].isBusy <=> m_devicesStates[udi].state \in BusyStates

\* A request has put a record into a busy state.
C1_Witness ==
    /\ lastCall.slot = "setRepairingState"
    /\ lastCall.udi \in DOMAIN m_devicesStates
    /\ m_devicesStates[lastCall.udi].isBusy
    /\ m_devicesStates[lastCall.udi].state = "Repairing"

\* C2: addMonitoringDevice(udi) for a udi that is already tracked, whatever
\* the state of its record, changes no record, keeps the one record of udi,
\* makes no connection and emits no stateChanged.
C2_AddIsIdempotent ==
    [][\A udi \in UDI :
          Calls("addMonitoringDevice", udi) /\ udi \in DOMAIN m_devicesStates
              => /\ m_devicesStates' = m_devicesStates
                 /\ notified' = <<>>
                 /\ accessConn' = accessConn
                 /\ driveConn' = driveConn]_vars

\* addMonitoringDevice has run on a record that was Mounting, and it still is.
C2_Witness ==
    /\ lastCall.slot = "addMonitoringDevice"
    /\ lastCall.found = "Mounting"
    /\ getState(lastCall.udi) = "Mounting"
    /\ isBusy(lastCall.udi)
    /\ notified = <<>>

\* C3: after removeMonitoringDevice(udi), whatever has happened to the udi
\* before, every query on it returns what it returns for a udi that has never
\* been registered.
C3_RemoveRestoresDefaults ==
    lastCall.slot = "removeMonitoringDevice" => AllQueries(lastCall.udi) = Defaults

\* removeMonitoringDevice has discarded a record that a check had completed on.
C3_Witness ==
    /\ lastCall.slot = "removeMonitoringDevice"
    /\ lastCall.found = "CheckDone"
    /\ notified = <<lastCall.udi>>
    /\ AllQueries(lastCall.udi) = Defaults

\* C4: for a udi that is not tracked every query returns its default (false,
\* NotPresent, NoError, an invalid QVariant, an invalid QDateTime), and for a
\* tracked udi getState never returns NotPresent.
C4_UntrackedDefaults ==
    \A udi \in UDI :
        IF udi \in DOMAIN m_devicesStates
        THEN getState(udi) # "NotPresent"
        ELSE /\ isBusy(udi) = FALSE
             /\ isRemovable(udi) = FALSE
             /\ isMounted(udi) = FALSE
             /\ isChecked(udi) = FALSE
             /\ needRepair(udi) = FALSE
             /\ getState(udi) = "NotPresent"
             /\ getOperationResult(udi) = "NoError"
             /\ getOperationInfo(udi) = NullVariant
             /\ getDeviceTimeStamp(udi) = <<>>

\* One udi is tracked and the other is not.
C4_Witness ==
    /\ "udi-1" \in DOMAIN m_devicesStates
    /\ "udi-2" \notin DOMAIN m_devicesStates
    /\ lastCall.slot = "setIdleState"

\* C5: addMonitoringDevice(udi) for an untracked udi creates a record with
\* state Idle, isBusy, isChecked and needRepair false, operationResult NoError,
\* and isMounted equal to what isAccessible() answers if the device is a
\* storage volume with a StorageAccess (false otherwise); it emits
\* stateChanged(udi) once and touches no other record.
C5_AddCreatesIdleRecord ==
    [][\A udi \in UDI :
          Calls("addMonitoringDevice", udi) /\ udi \notin DOMAIN m_devicesStates
              => /\ udi \in DOMAIN m_devicesStates'
                 /\ m_devicesStates'[udi].state = "Idle"
                 /\ m_devicesStates'[udi].isBusy = FALSE
                 /\ m_devicesStates'[udi].isChecked = FALSE
                 /\ m_devicesStates'[udi].needRepair = FALSE
                 /\ m_devicesStates'[udi].operationResult = "NoError"
                 /\ m_devicesStates'[udi].isMounted =
                        (/\ lastCall'.answer.valid
                         /\ caps[udi].storageVolume
                         /\ caps[udi].storageAccess
                         /\ lastCall'.answer.accessible)
                 /\ notified' = <<udi>>
                 /\ \A other \in UDI \ {udi} : ~Changed(other)]_vars

\* A removable, mountable, accessible device has just been registered.
C5_Witness ==
    /\ lastCall.slot = "addMonitoringDevice"
    /\ lastCall.found = "NotPresent"
    /\ lastCall.answer = Answer(TRUE, TRUE)
    /\ caps[lastCall.udi].storageVolume
    /\ isRemovable(lastCall.udi)
    /\ isMounted(lastCall.udi)
    /\ getState(lastCall.udi) = "Idle"
    /\ notified = <<lastCall.udi>>

\* C6: removeMonitoringDevice(udi) discards the record of a tracked udi
\* whatever its state and emits stateChanged(udi) once; for an untracked udi it
\* changes nothing and emits nothing. It touches no other record.
C6_RemoveDiscards ==
    [][\A udi \in UDI :
          Calls("removeMonitoringDevice", udi)
              => /\ udi \notin DOMAIN m_devicesStates'
                 /\ notified' = IF udi \in DOMAIN m_devicesStates THEN <<udi>> ELSE <<>>
                 /\ \A other \in UDI \ {udi} : ~Changed(other)
                 /\ crashed' = crashed]_vars

\* A record has been discarded while its unmount was in flight.
C6_Witness ==
    /\ lastCall.slot = "removeMonitoringDevice"
    /\ lastCall.found = "Unmounting"
    /\ lastCall.udi \notin DOMAIN m_devicesStates
    /\ notified = <<lastCall.udi>>

\* C7: every call that returns and has changed a record (created, discarded
\* or modified it) has emitted exactly one stateChanged, with the udi of that
\* record, and has changed no other record.
C7_OneNotificationPerMutation ==
    [][~crashed' /\ m_devicesStates' # m_devicesStates
          => \E udi \in UDI :
                /\ Changed(udi)
                /\ notified' = <<udi>>
                /\ \A other \in UDI \ {udi} : ~Changed(other)]_vars

\* An accessibility change to a different value has been notified while the
\* other device is tracked too.
C7_Witness ==
    /\ lastCall.slot = "setAccessibilityState"
    /\ notified = <<"udi-1">>
    /\ DOMAIN m_devicesStates = UDI

\* The stateChanged emissions the code makes in a step that returns.
Emissions(call, tracked, changesMounted) ==
    CASE call.slot = "addMonitoringDevice" -> IF tracked THEN <<>> ELSE <<call.udi>>
      [] call.slot = "removeMonitoringDevice" -> IF tracked THEN <<call.udi>> ELSE <<>>
      [] call.slot \in {"setMountingState", "setUnmountingState",
                        "setCheckingState", "setRepairingState"} ->
            IF tracked THEN <<call.udi>> ELSE <<>>
      [] call.slot = "setIdleState" ->
            IF tracked /\ call.answer.valid THEN <<call.udi>> ELSE <<>>
      [] call.slot = "setAccessibilityState" ->
            IF tracked /\ changesMounted THEN <<call.udi>> ELSE <<>>
      [] OTHER -> <<>>

\* C8 as stated: stateChanged is emitted once by a call that changes a record
\* and not at all by a call that changes none.
C8_NotifiedIffChanged ==
    [][~crashed' /\ vars' # vars
          => IF m_devicesStates' # m_devicesStates
             THEN \E udi \in UDI : Changed(udi) /\ notified' = <<udi>>
             ELSE notified' = <<>>]_vars

\* C8 amended: stateChanged(udi) is emitted exactly once by the registration of
\* an untracked udi, the removal of a tracked udi, every request slot run for a
\* tracked udi, every setIdleState run for a tracked udi of a valid device, and
\* every setAccessibilityState that changes isMounted, whether or not the call
\* changes any field of the record; no other call emits it.
C8_NotifiedPerHandledEvent ==
    [][~crashed' /\ vars' # vars
          => notified' =
                Emissions(lastCall',
                          lastCall'.udi \in DOMAIN m_devicesStates,
                          /\ lastCall'.udi \in DOMAIN m_devicesStates
                          /\ lastCall'.udi \in DOMAIN m_devicesStates'
                          /\ m_devicesStates'[lastCall'.udi].isMounted
                                # m_devicesStates[lastCall'.udi].isMounted)]_vars

\* A mount request for a record that was already Mounting has emitted
\* stateChanged.
C8_Witness ==
    /\ lastCall.slot = "setMountingState"
    /\ lastCall.found = "Mounting"
    /\ notified = <<lastCall.udi>>

\* C9: setIdleState for a udi whose device is no longer valid, or for a udi
\* that is not tracked, changes no record, emits nothing and does not end the
\* process.
C9_StaleDoneIsIgnored ==
    [][\A udi \in UDI :
          /\ Calls("setIdleState", udi)
          /\ (~lastCall'.answer.valid \/ udi \notin DOMAIN m_devicesStates)
          => /\ m_devicesStates' = m_devicesStates
             /\ notified' = <<>>
             /\ crashed' = FALSE]_vars

\* An operation-done has arrived for a detached device whose record is still
\* tracked and Checking: the record is still Checking and busy.
C9_Witness ==
    /\ lastCall.slot = "setIdleState"
    /\ ~lastCall.answer.valid
    /\ lastCall.found = "Checking"
    /\ getState(lastCall.udi) = "Checking"
    /\ isBusy(lastCall.udi)
    /\ notified = <<>>

\* C10: no call of the monitor ends the process.
C10_NeverFails == crashed = FALSE

\* The step is a setIdleState for a tracked udi of a valid device, and it has
\* returned.
Accepted(udi) ==
    /\ Calls("setIdleState", udi)
    /\ udi \in DOMAIN m_devicesStates
    /\ lastCall'.answer.valid
    /\ ~crashed'

\* C11: after setIdleState(result, info, udi) on a tracked udi of a valid
\* device, whatever the state of the record, getOperationResult(udi) is
\* result and getOperationInfo(udi) is info; no other call changes either
\* value of a record it keeps.
C11_ResultIsStored ==
    [][\A udi \in UDI :
          /\ Accepted(udi)
                => /\ udi \in DOMAIN m_devicesStates'
                   /\ m_devicesStates'[udi].operationResult = lastCall'.operationResult
                   /\ m_devicesStates'[udi].operationInfo = lastCall'.operationInfo
          /\ (/\ udi \in DOMAIN m_devicesStates
              /\ udi \in DOMAIN m_devicesStates'
              /\ ~(Calls("setIdleState", udi) /\ lastCall'.answer.valid))
                => /\ m_devicesStates'[udi].operationResult = m_devicesStates[udi].operationResult
                   /\ m_devicesStates'[udi].operationInfo = m_devicesStates[udi].operationInfo]_vars

\* A failed operation's result and info are still reported after a later
\* mount request.
C11_Witness ==
    /\ lastCall.slot = "setMountingState"
    /\ lastCall.found \in {"MountDone", "UnmountDone", "CheckDone", "RepairDone", "Idle"}
    /\ getOperationResult(lastCall.udi) = "OperationFailed"
    /\ getOperationInfo(lastCall.udi) = "true"

\* C12: no connection to the monitor is left for a udi that is not tracked,
\* and no interface object is connected more than once, so that one signal
\* runs its slot once.
C12_SubscriptionsFollowRecords ==
    \A udi \in UDI :
        /\ udi \notin DOMAIN m_devicesStates => accessConn[udi] = 0 /\ driveConn[udi] = 0
        /\ accessConn[udi] <= 1
        /\ driveConn[udi] <= 1

\* The union of the conditions Solid reports for a device: its own drive
\* interface is removable, its ancestor drive is removable or hotpluggable,
\* it is a camera, it is a portable media player.
AnyRemovable(device) ==
    \/ is(device, "storageDrive") /\ device.caps.removable
    \/ is(device, "ancestorDrive")
          /\ (device.caps.ancestorRemovable \/ device.caps.ancestorHotpluggable)
    \/ is(device, "camera")
    \/ is(device, "mediaPlayer")

\* C13: the record addMonitoringDevice creates has isRemovable true exactly
\* when one of the conditions holds: the device's own or ancestor drive is
\* removable or hotpluggable, the device is a camera, or it is a portable
\* media player.
C13_RemovableIsUnion ==
    [][\A udi \in UDI :
          Calls("addMonitoringDevice", udi) /\ udi \notin DOMAIN m_devicesStates
              => m_devicesStates'[udi].isRemovable
                    = AnyRemovable(Device(caps[udi], lastCall'.answer))]_vars

\* C14: no call changes isRemovable of a record it keeps, whatever Solid
\* answers about the device at the time of the call.
C14_RemovableIsFixed ==
    [][\A udi \in UDI :
          udi \in DOMAIN m_devicesStates /\ udi \in DOMAIN m_devicesStates'
              => m_devicesStates'[udi].isRemovable = m_devicesStates[udi].isRemovable]_vars

\* A record created while the device was not valid is not removable; an
\* operation has completed on it while Solid reports a hotpluggable drive.
C14_Witness ==
    /\ lastCall.slot = "setIdleState"
    /\ lastCall.answer.valid
    /\ lastCall.found = "Mounting"
    /\ getState(lastCall.udi) = "MountDone"
    /\ ~isRemovable(lastCall.udi)
    /\ InitialRemovable(Device(caps[lastCall.udi], lastCall.answer))

\* C15 as stated: after a request or an operation-done that changes the state
\* of a record, getDeviceTimeStamp is the time of that call.
C15_TimestampRefreshed ==
    [][\A udi \in UDI :
          (/\ udi \in DOMAIN m_devicesStates
           /\ udi \in DOMAIN m_devicesStates'
           /\ ~crashed'
           /\ m_devicesStates'[udi].state # m_devicesStates[udi].state)
              => m_devicesStates'[udi].deviceTimeStamp = now']_vars

\* C15 amended: getDeviceTimeStamp is the time addMonitoringDevice created
\* the record, and no later call changes it while the record exists.
C15_TimestampIsCreationTime ==
    [][\A udi \in UDI :
          /\ (udi \notin DOMAIN m_devicesStates /\ udi \in DOMAIN m_devicesStates')
                => m_devicesStates'[udi].deviceTimeStamp = now
          /\ (udi \in DOMAIN m_devicesStates /\ udi \in DOMAIN m_devicesStates')
                => m_devicesStates'[udi].deviceTimeStamp
                      = m_devicesStates[udi].deviceTimeStamp]_vars

\* A mount has completed after the clock has advanced, and the record still
\* carries the time of its registration.
C15_Witness ==
    /\ lastCall.slot = "setIdleState"
    /\ lastCall.found = "Mounting"
    /\ getState(lastCall.udi) = "MountDone"
    /\ now = 1
    /\ getDeviceTimeStamp(lastCall.udi) = <<0>>

\* The monitors that exist.
Live(objs) == {i \in DOMAIN objs : objs[i] > 0}

\* C16: at most one monitor exists at a time; instance() hands out the
\* existing monitor whenever a handle on it is held, and constructs a new
\* one, with no record, only when no monitor exists.
C16_SingleInstance ==
    [][/\ Cardinality(Live(objects')) <= 1
       /\ lastCall'.slot = "instance" /\ objects' # objects
            => IF Live(objects) # {}
               THEN /\ \E i \in Live(objects) : objects' = [objects EXCEPT ![i] = @ + 1]
                    /\ m_devicesStates' = m_devicesStates
               ELSE /\ Len(objects') = Len(objects) + 1
                    /\ Live(objects') = {Len(objects')}
                    /\ objects'[Len(objects')] = 1
                    /\ m_devicesStates' = <<>>]_vars

\* After the first monitor has been destroyed, a second one has been
\* constructed, a device registered with it, and it has been handed out a
\* second time with its record.
C16_Witness ==
    /\ lastCall.slot = "instance"
    /\ objects = <<0, 2>>
    /\ "udi-1" \in DOMAIN m_devicesStates

\* The state each request slot assigns.
RequestedState(slot) ==
    CASE slot = "setMountingState" -> "Mounting"
      [] slot = "setUnmountingState" -> "Unmounting"
      [] slot = "setCheckingState" -> "Checking"
      [] slot = "setRepairingState" -> "Repairing"

\* C17: a request slot run for a tracked udi whose record is Idle sets the
\* state of its request (Mounting, Unmounting, Checking, Repairing) and
\* isBusy, and changes no other field and no other record; run for an
\* untracked udi it changes nothing and emits nothing.
C17_RequestFromIdle ==
    [][\A udi \in UDI, slot \in RequestSlots :
          Calls(slot, udi)
              => IF udi \in DOMAIN m_devicesStates
                 THEN m_devicesStates[udi].state = "Idle"
                        => m_devicesStates' =
                              [m_devicesStates EXCEPT
                                  ![udi] = [@ EXCEPT !.isBusy = TRUE,
                                                     !.state = RequestedState(slot)]]
                 ELSE m_devicesStates' = m_devicesStates /\ notified' = <<>>]_vars

\* An unmount or eject request has found a mounted record Idle and left it
\* Unmounting, busy and still mounted.
C17_Witness ==
    /\ lastCall.slot = "setUnmountingState"
    /\ lastCall.found = "Idle"
    /\ getState(lastCall.udi) = "Unmounting"
    /\ isBusy(lastCall.udi)
    /\ isMounted(lastCall.udi)

\* C18: setIdleState(result, info, udi) that returns, for a tracked udi of a
\* valid device whose record is Checking, leaves the record CheckDone, not
\* busy, checked, and with needRepair true exactly when the result is NoError,
\* info is false and the device's StorageAccess can repair.
C18_CheckDone ==
    [][\A udi \in UDI :
          Accepted(udi) /\ m_devicesStates[udi].state = "Checking"
              => /\ m_devicesStates'[udi].state = "CheckDone"
                 /\ m_devicesStates'[udi].isBusy = FALSE
                 /\ m_devicesStates'[udi].isChecked = TRUE
                 /\ m_devicesStates'[udi].needRepair =
                        (/\ lastCall'.operationResult = "NoError"
                         /\ lastCall'.operationInfo = "false"
                         /\ caps[udi].canRepair)
                 /\ m_devicesStates'[udi].isMounted = m_devicesStates[udi].isMounted]_vars

\* A check of a repairable partition has succeeded with info false: the
\* record needs repair.
C18_Witness ==
    /\ lastCall.slot = "setIdleState"
    /\ lastCall.found = "Checking"
    /\ lastCall.operationResult = "NoError"
    /\ lastCall.operationInfo = "false"
    /\ getState(lastCall.udi) = "CheckDone"
    /\ isChecked(lastCall.udi)
    /\ needRepair(lastCall.udi)

\* C19: setIdleState(result, info, udi) for a tracked udi of a valid device
\* whose record is Repairing leaves the record RepairDone, not busy, with
\* needRepair true exactly when the result is not NoError, and with isChecked
\* and isMounted as they were.
C19_RepairDone ==
    [][\A udi \in UDI :
          Accepted(udi) /\ m_devicesStates[udi].state = "Repairing"
              => /\ m_devicesStates'[udi].state = "RepairDone"
                 /\ m_devicesStates'[udi].isBusy = FALSE
                 /\ m_devicesStates'[udi].needRepair = (lastCall'.operationResult # "NoError")
                 /\ m_devicesStates'[udi].isChecked = m_devicesStates[udi].isChecked
                 /\ m_devicesStates'[udi].isMounted = m_devicesStates[udi].isMounted]_vars

\* A repair has failed on a record that had been checked: the record
\* now needs repair.
C19_Witness ==
    /\ lastCall.slot = "setIdleState"
    /\ lastCall.found = "Repairing"
    /\ lastCall.operationResult = "OperationFailed"
    /\ getState(lastCall.udi) = "RepairDone"
    /\ isChecked(lastCall.udi)
    /\ needRepair(lastCall.udi)

\* C20: setIdleState for a tracked udi of a valid device whose record is
\* Mounting leaves it MountDone, and whose record is Unmounting (after a
\* teardown or an eject request) leaves it UnmountDone; in both cases the
\* record is not busy, isMounted is what isAccessible() answers at the time
\* of the call, whatever the result, and isChecked and needRepair are as they
\* were.
C20_MountDone ==
    [][\A udi \in UDI :
          (/\ Calls("setIdleState", udi)
           /\ udi \in DOMAIN m_devicesStates
           /\ lastCall'.answer.valid
           /\ m_devicesStates[udi].state \in {"Mounting", "Unmounting"})
              => /\ udi \in DOMAIN m_devicesStates'
                 /\ m_devicesStates'[udi].state =
                        (IF m_devicesStates[udi].state = "Mounting"
                         THEN "MountDone" ELSE "UnmountDone")
                 /\ m_devicesStates'[udi].isBusy = FALSE
                 /\ m_devicesStates'[udi].isMounted = lastCall'.answer.accessible
                 /\ m_devicesStates'[udi].isChecked = m_devicesStates[udi].isChecked
                 /\ m_devicesStates'[udi].needRepair = m_devicesStates[udi].needRepair]_vars

\* C21: setIdleState for a tracked udi of a valid device whose record is
\* Idle, MountDone, UnmountDone, CheckDone or RepairDone leaves the record
\* Idle and not busy, with isMounted, isChecked and needRepair as they were.
C21_DoneElsewhereIsIdle ==
    [][\A udi \in UDI :
          Accepted(udi) /\ m_devicesStates[udi].state \notin BusyStates
              => /\ m_devicesStates'[udi].state = "Idle"
                 /\ m_devicesStates'[udi].isBusy = FALSE
                 /\ m_devicesStates'[udi].isMounted = m_devicesStates[udi].isMounted
                 /\ m_devicesStates'[udi].isChecked = m_devicesStates[udi].isChecked
                 /\ m_devicesStates'[udi].needRepair = m_devicesStates[udi].needRepair]_vars

\* A second done signal has found a record CheckDone that needs repair, and
\* left it Idle, checked and still in need of repair.
C21_Witness ==
    /\ lastCall.slot = "setIdleState"
    /\ lastCall.answer.valid
    /\ lastCall.found = "CheckDone"
    /\ getState(lastCall.udi) = "Idle"
    /\ ~isBusy(lastCall.udi)
    /\ isChecked(lastCall.udi)
    /\ needRepair(lastCall.udi)

\* C22: setAccessibilityState(isAccessible, udi) for a tracked udi changes no
\* field but isMounted and no other record; if isMounted differs from
\* isAccessible it becomes isAccessible and stateChanged(udi) is emitted once,
\* otherwise nothing changes and nothing is emitted.
C22_AccessibilityOnlyMounted ==
    [][\A udi \in UDI :
          Calls("setAccessibilityState", udi) /\ udi \in DOMAIN m_devicesStates
              => /\ m_devicesStates' =
                       [m_devicesStates EXCEPT ![udi].isMounted = lastCall'.isAccessible]
                 /\ notified' = IF m_devicesStates[udi].isMounted # lastCall'.isAccessible
                                THEN <<udi>> ELSE <<>>]_vars

\* accessibilityChanged(false) has been delivered to a record that is
\* Unmounting and already not mounted: it is still Unmounting and busy, and
\* nothing has been emitted.
C22_Witness ==
    /\ lastCall.slot = "setAccessibilityState"
    /\ lastCall.isAccessible = FALSE
    /\ lastCall.found = "Unmounting"
    /\ getState(lastCall.udi) = "Unmounting"
    /\ isBusy(lastCall.udi)
    /\ ~isMounted(lastCall.udi)
    /\ notified = <<>>

\* The done markers and the busy state each follows.
DoneStates == {"MountDone", "UnmountDone", "CheckDone", "RepairDone"}

BusyOf(done) ==
    CASE done = "MountDone" -> "Mounting"
      [] done = "UnmountDone" -> "Unmounting"
      [] done = "CheckDone" -> "Checking"
      [] done = "RepairDone" -> "Repairing"

\* A record enters a done marker only from the marker's busy state and only
\* in setIdleState.
EntersDoneFromBusy(udi) ==
    (/\ udi \in DOMAIN m_devicesStates'
     /\ m_devicesStates'[udi].state \in DoneStates
     /\ (udi \in DOMAIN m_devicesStates
            => m_devicesStates[udi].state # m_devicesStates'[udi].state))
        => /\ udi \in DOMAIN m_devicesStates
           /\ m_devicesStates[udi].state = BusyOf(m_devicesStates'[udi].state)
           /\ Calls("setIdleState", udi)

\* C23 as stated: a done marker is entered only from its busy state on
\* setIdleState, and every call that changes a record which is in a done
\* marker, and keeps it, moves it out of the marker.
C23_DoneMarkersTransient ==
    [][\A udi \in UDI :
          /\ EntersDoneFromBusy(udi)
          /\ (/\ udi \in DOMAIN m_devicesStates
              /\ udi \in DOMAIN m_devicesStates'
              /\ m_devicesStates[udi].state \in DoneStates
              /\ Changed(udi))
                => m_devicesStates'[udi].state \notin DoneStates]_vars

\* C23 amended: a done marker is entered only from its busy state on
\* setIdleState; a request slot moves a record out of a done marker to the
\* state of the request and a setIdleState that is not ignored moves it to
\* Idle, and no other call changes the state of a record it keeps:
\* setAccessibilityState leaves the record in its done marker.
C23_DoneMarkersLeftByOperations ==
    [][\A udi \in UDI :
          /\ EntersDoneFromBusy(udi)
          /\ (/\ udi \in DOMAIN m_devicesStates
              /\ udi \in DOMAIN m_devicesStates'
              /\ m_devicesStates[udi].state \in DoneStates)
                => /\ \A slot \in RequestSlots :
                         Calls(slot, udi) => m_devicesStates'[udi].state = RequestedState(slot)
                   /\ Accepted(udi) => m_devicesStates'[udi].state = "Idle"
                   /\ (~Accepted(udi) /\ \A slot \in RequestSlots : ~Calls(slot, udi))
                         => m_devicesStates'[udi].state = m_devicesStates[udi].state]_vars

\* An accessibility change has been handled for a record that is MountDone:
\* isMounted has changed, stateChanged has been emitted, and the record is
\* still MountDone.
C23_Witness ==
    /\ lastCall.slot = "setAccessibilityState"
    /\ lastCall.found = "MountDone"
    /\ notified = <<lastCall.udi>>
    /\ getState(lastCall.udi) = "MountDone"

\* C24: at no point of removeMonitoringDevice(udi), and not at its end, is the
\* record of udi gone while a connection for udi is still there.
C24_DisconnectsBeforeErase ==
    [][\A udi \in UDI :
          Calls("removeMonitoringDevice", udi) /\ udi \in DOMAIN m_devicesStates
              => LET steps == removeMonitoringDeviceSteps(
                                  accessConn[udi], driveConn[udi],
                                  Device(caps[udi], lastCall'.answer))
                 IN  /\ steps[Len(steps)].accessConn = accessConn'[udi]
                     /\ steps[Len(steps)].driveConn = driveConn'[udi]
                     /\ \A i \in DOMAIN steps :
                           steps[i].tracked
                              \/ (steps[i].accessConn = 0 /\ steps[i].driveConn = 0)]_vars

\* C25: for a tracked device whose operations are followed, isBusy is true
\* exactly while an operation that was requested has not been reported done.
C25_BusyIffInFlight ==
    \A udi \in DOMAIN inFlight \cap DOMAIN m_devicesStates :
        m_devicesStates[udi].isBusy <=> InFlight(inFlight[udi], RequestSlots) > 0

\* C26: a request slot run for a tracked udi, whatever the state of its
\* record, sets the state of its request and isBusy, keeps every other field
\* and every other record, and emits stateChanged(udi); the state it replaces
\* is kept nowhere.
C26_RequestFromAnyState ==
    [][\A udi \in UDI, slot \in RequestSlots :
          Calls(slot, udi) /\ udi \in DOMAIN m_devicesStates
              => /\ m_devicesStates' =
                       [m_devicesStates EXCEPT
                           ![udi] = [@ EXCEPT !.isBusy = TRUE,
                                              !.state = RequestedState(slot)]]
                 /\ notified' = <<udi>>]_vars

\* A check request has replaced the state of a record that was Mounting.
C26_Witness ==
    /\ lastCall.slot = "setCheckingState"
    /\ lastCall.found = "Mounting"
    /\ getState(lastCall.udi) = "Checking"
    /\ isBusy(lastCall.udi)

\* C27: when the done signal of a check that was requested arrives for a
\* tracked, valid device, isChecked is true afterwards, whatever other
\* requests were delivered since the check was requested.
C27_CheckDoneSetsChecked ==
    [][\A udi \in DOMAIN inFlight :
          (/\ Calls("setIdleState", udi)
           /\ udi \in DOMAIN m_devicesStates
           /\ lastCall'.answer.valid
           /\ inFlight'[udi]["setCheckingState"] < inFlight[udi]["setCheckingState"])
              => /\ udi \in DOMAIN m_devicesStates'
                 /\ m_devicesStates'[udi].isChecked]_vars

C29_NeedRepairImpliesCanRepair ==
    \A udi \in DOMAIN m_devicesStates :
        m_devicesStates[udi].needRepair => caps[udi].canRepair

\* A failed repair has left needRepair set on a device that can be repaired.
C29_Witness ==
    /\ lastCall.slot = "setIdleState"
    /\ lastCall.found = "Repairing"
    /\ lastCall.operationResult # "NoError"
    /\ lastCall.udi \in DOMAIN m_devicesStates
    /\ m_devicesStates[lastCall.udi].needRepair
    /\ caps[lastCall.udi].canRepair

\* C30: removeEntry(row) removes exactly the entry whose file it deleted:
\* whenever a delete job finishes without error, whatever was inserted,
\* sorted or removed since removeEntry was called, the captured row is a row
\* of the list, the entry at that row is the one captured when the job was
\* started, and the list afterwards is the list without that row.
C30_RemovesDeletedEntry ==
    [][finished'.outcome \notin {"none", "error"} =>
          /\ finished'.row < Len(m_entries)
          /\ m_entries[finished'.row + 1] = finished'.entry
          /\ m_entries' = remove(m_entries, finished'.row)]_vars

====
